---- MODULE Spec2Model ----
(***************************************************************************)
(* epubToImg.py: EPUB to PNG converter with adaptive page breaks.          *)
(* The model follows one run of main(): the output-directory check, the    *)
(* browser launch, the spine extraction, and for every content document    *)
(* the paging loop of process_html with the clean-break search of          *)
(* find_clean_break.  An image is modelled by its height and its bottom    *)
(* pixel row, the only part of it the program inspects.                    *)
(***************************************************************************)
EXTENDS Integers, Sequences, FiniteSets, TLC

\* ------------------------------------------------------------------ bounds
MaxBase == 7       \* the largest configured base height
MaxTotal == 5      \* the measured scrollHeights of a spine sum to at most MaxTotal
MaxDocs == 2       \* documents in the spine
MaxPages == 3      \* pages written in one run (caps runs that make no progress)
RowWidth == 2      \* pixels in a captured row

\* --------------------------------------------------------- program constants
Threshold == 220   \* --threshold default
White == 255       \* the binarizer's white

Min(a, b) == IF a < b THEN a ELSE b

\* The configured base heights: one whose floor is 0, and two with a floor
\* above 0, the larger of them taller than every document.
BaseHeights == {1, MaxBase - 3, MaxBase}

\* Gray levels a bottom-row pixel takes: ink, exactly the threshold, white.
Grays == {Threshold - 1, Threshold, White}

\* The bottom rows the surface can return: white but for the last pixel.
Rows == {[i \in 1..RowWidth |-> IF i = RowWidth THEN g ELSE White] : g \in Grays}

\* A row not yet captured.
NoRow == <<>>

\* ------------------------------------------------------------- file names
DigitChar == <<"0", "1", "2", "3", "4", "5", "6", "7", "8", "9">>

RECURSIVE Digits(_)
Digits(n) == IF n < 10 THEN <<DigitChar[n + 1]>>
             ELSE Digits(n \div 10) \o <<DigitChar[(n % 10) + 1]>>

RECURSIVE ZeroPad(_, _)
ZeroPad(s, w) == IF Len(s) >= w THEN s ELSE ZeroPad(<<"0">> \o s, w)

\* f"{idx:04d}.png"
OutName(i) == ZeroPad(Digits(i), 4) \o <<".", "p", "n", "g">>

\* A file that is in the output directory before the run.
PreExisting == <<"x">>

\* ------------------------------------------------------------ pure helpers
\* int(self.base_height * 0.3): the product is a non-negative double whose
\* truncation equals the integer quotient of 3*base_height by 10.
MinHeight(bh) == (bh * 3) \div 10

\* Variant: the start height ignores the remaining height.
StartHeightBase(max_height, bh) == bh

\* min(max_height, self.base_height)
StartHeight(max_height, bh) == Min(max_height, bh)

\* Variant: a pixel at the threshold counts as ink.
is_text_cut_off_le(image) == \E i \in DOMAIN image : image[i] <= Threshold

\* Variant: only the first pixel of the row is inspected.
is_text_cut_off_first(image) == image[1] < Threshold

\* any(pixel < self.threshold for pixel in bottom_row.getdata())
is_text_cut_off(image) == \E i \in DOMAIN image : image[i] < Threshold

\* Variant: best_height follows the height tested last.
BestLastTested(cut, test, best) == test

\* best_height after one probe: updated only by a clean probe.
BestAfterProbe(cut, test, best) == IF cut THEN best ELSE test

\* Variant: the range runs one height below min_height.
LoopEndsBelowFloor(cut, test, minh) == (~cut) \/ (test - 1 < minh - 1)

\* The for loop ends after a clean probe (break) or after min_height.
LoopEnds(cut, test, minh) == (~cut) \/ (test - 1 < minh)

\* Variant: the loop does not step.
NextTestSame(test) == test

\* The step of range(current_height, min_height - 1, -1).
NextTest(test) == test - 1

\* Variant: the start height is tested even below min_height.
RangeNeverEmpty(cur, minh) == FALSE

\* range(current_height, min_height - 1, -1) is empty.
RangeEmpty(cur, minh) == cur < minh

\* Variant: the loop also runs at the end of the document.
LoopCondInclusive(top, total) == top <= total

\* while current_top < total_height
LoopCond(top, total) == top < total

\* screenshot.point(lambda p: 255 if p > self.threshold else 0, mode="1")
Binarize(image) == [i \in DOMAIN image |-> IF image[i] > Threshold THEN White ELSE 0]

\* ------------------------------------------------------------------ state
VARIABLES
    pc,              \* position of the single thread of control
    failed,          \* the operation that raised, "none" while none has
    base_height,     \* --height
    archive,         \* the EPUB: its kind and the heights of its spine documents
    outdir_exists,   \* args.outdir.exists()
    outdir,          \* names of the files in the output directory
    extracted,       \* the archive has been unpacked into the work directory
    browser,         \* "none", "open" or "closed"
    loaded,          \* index of the document the page shows, 0 for none
    viewport,        \* the page's viewport height
    scroll_top,      \* scrollTop of the scrolling element
    rendered,        \* bottom rows the surface has shown, by <<doc, top, height>>
    html_files,      \* process: the spine documents (by measured height)
    doc_i,           \* process: position of the for loop in html_files
    idx,             \* the page index
    total_height,    \* process_html
    current_top,     \* process_html
    viewport_height, \* process_html: the height find_clean_break returned
    min_height,      \* find_clean_break
    current_height,  \* find_clean_break
    best_height,     \* find_clean_break
    test_height,     \* find_clean_break
    probed,          \* heights captured by the running find_clean_break call
    screenshot,      \* the bottom row of the last capture
    written,         \* the pages saved, in order
    start_idx,       \* process_html: the index it was called with
    cmds             \* the commands the page has completed for the loaded document

vars == <<pc, failed, base_height, archive, outdir_exists, outdir, extracted,
          browser, loaded, viewport, scroll_top, rendered, html_files, doc_i,
          idx, total_height, current_top, viewport_height, min_height,
          current_height, best_height, test_height, probed, screenshot, written,
          start_idx, cmds>>

config == <<base_height, archive>>
surface == <<browser, loaded, viewport, scroll_top>>
locator == <<min_height, current_height, best_height, test_height, probed>>
driver == <<total_height, current_top, viewport_height>>
output == <<outdir_exists, outdir, written>>

\* A command of the rendering session: its operation, and the height and the
\* offset it carries (0 where it carries none).
Cmd(op, h, top) == [op |-> op, h |-> h, top |-> top]

\* Sequences over S of length 0..n.
SeqUpTo(S, n) == UNION {[1..k -> S] : k \in 0..n}

ArchiveKinds == {"ok", "nocontainer", "norootfile", "badopf"}

RECURSIVE SumSeq(_)
SumSeq(s) == IF s = <<>> THEN 0 ELSE s[1] + SumSeq(Tail(s))

Spines == {d \in SeqUpTo(0..MaxTotal, MaxDocs) : SumSeq(d) <= MaxTotal}

Archives == {[kind |-> "ok", docs |-> d] : d \in Spines}
            \cup {[kind |-> k, docs |-> <<>>] : k \in ArchiveKinds \ {"ok"}}

Init ==
    /\ pc = "main"
    /\ failed = "none"
    /\ base_height \in BaseHeights
    /\ archive \in Archives
    /\ \E d \in {"absent", "empty", "nonempty"} :
          /\ outdir_exists = (d # "absent")
          /\ outdir = IF d = "nonempty" THEN {PreExisting} ELSE {}
    /\ extracted = FALSE
    /\ browser = "none"
    /\ loaded = 0
    /\ viewport = 0
    /\ scroll_top = 0
    /\ rendered = <<>>
    /\ html_files = <<>>
    /\ doc_i = 0
    /\ idx = 0
    /\ total_height = 0
    /\ current_top = 0
    /\ viewport_height = 0
    /\ min_height = 0
    /\ current_height = 0
    /\ best_height = 0
    /\ test_height = 0
    /\ probed = <<>>
    /\ screenshot = NoRow
    /\ written = <<>>
    /\ start_idx = 0
    /\ cmds = <<>>

\* Variant: the failure is recorded and the run goes on with the next document.
RaiseAndContinue(op) ==
    /\ pc' = "for"
    /\ failed' = op
    /\ UNCHANGED <<config, output, surface, rendered, html_files,
                   doc_i, idx, driver, locator, screenshot>>
    /\ UNCHANGED <<start_idx, cmds>>

\* ------------------------------------------------------------- exceptions
\* No handler anywhere: an exception leaves process() through its with
\* statement, which stops playwright, and ends the program.  (The work
\* directory is left to the step that raises.)
Raise(op) ==
    /\ pc' = "aborted"
    /\ failed' = op
    /\ browser' = IF browser = "open" THEN "closed" ELSE browser
    /\ UNCHANGED <<config, output, loaded, viewport, scroll_top,
                   rendered, html_files, doc_i, idx, driver, locator, screenshot>>
    /\ UNCHANGED <<start_idx, cmds>>

\* Variant: the output directory is not checked.
OutputDirCheckOmitted == FALSE

\* ------------------------------------------------------------------- main
\* args.outdir.exists() and any(args.outdir.iterdir())
OutputDirNotEmpty == outdir_exists /\ outdir # {}

\* main: the output-directory check, then the constructor (mkdir).
Main ==
    /\ pc = "main"
    /\ \/ /\ OutputDirNotEmpty
          /\ pc' = "rejected"
          /\ UNCHANGED outdir_exists
       \/ /\ ~OutputDirNotEmpty
          /\ outdir_exists' = TRUE
          /\ pc' = "launch"
    /\ UNCHANGED <<failed, config, outdir, written, extracted, surface, rendered,
                   html_files, doc_i, idx, driver, locator, screenshot>>
    /\ UNCHANGED <<start_idx, cmds>>

\* Variant: the browser is not launched before the extraction.
LaunchDeferred ==
    /\ pc = "launch"
    /\ pc' = "extract"
    /\ UNCHANGED <<failed, config, output, extracted, surface, rendered,
                   html_files, doc_i, idx, driver, locator, screenshot>>
    /\ UNCHANGED <<start_idx, cmds>>

\* process: launch the browser, open a context and a page.
Launch ==
    /\ pc = "launch"
    /\ browser' = "open"
    /\ viewport' = base_height
    /\ pc' = "extract"
    /\ UNCHANGED <<failed, config, output, extracted, loaded, scroll_top, rendered,
                   html_files, doc_i, idx, driver, locator, screenshot>>
    /\ UNCHANGED <<start_idx, cmds>>

\* The value process gives idx before the first document.
FirstIdx == 0

\* process: extract_spine_htmls, then idx = 0.
Extract ==
    /\ pc = "extract"
    /\ extracted' = TRUE
    /\ \/ /\ archive.kind = "ok"
          /\ html_files' = archive.docs
          /\ idx' = FirstIdx
          /\ doc_i' = 0
          /\ pc' = "for"
          /\ UNCHANGED <<failed, config, output, surface, rendered, driver,
                         locator, screenshot, start_idx, cmds>>
       \/ /\ archive.kind # "ok"
          /\ Raise("extract")

\* Variant: every document starts again at the first index.
StartIdxReset == FirstIdx

\* The start_idx process hands to process_html: the index the previous
\* document returned.
StartIdx == idx

\* process: the for loop over html_files, and the call of process_html.
ForNext ==
    /\ pc = "for"
    /\ \/ /\ doc_i < Len(html_files)
          /\ doc_i' = doc_i + 1
          /\ start_idx' = StartIdx
          /\ pc' = "goto"
       \/ /\ doc_i >= Len(html_files)
          /\ pc' = "close"
          /\ UNCHANGED <<doc_i, start_idx>>
    /\ UNCHANGED cmds
    /\ UNCHANGED <<failed, config, output, extracted, surface, rendered,
                   html_files, idx, driver, locator, screenshot>>

\* process: browser.close() and leaving the with statement.
Close ==
    /\ pc = "close"
    /\ browser' = "closed"
    /\ pc' = "done"
    /\ UNCHANGED <<failed, config, output, extracted, loaded, viewport, scroll_top,
                   rendered, html_files, doc_i, idx, driver, locator, screenshot>>
    /\ UNCHANGED <<start_idx, cmds>>

\* ----------------------------------------------------------- process_html
\* Variant: every document is loaded into a page with the launch viewport.
GotoFreshViewport ==
    /\ pc = "goto"
    /\ loaded' = doc_i
    /\ scroll_top' = 0
    /\ viewport' = base_height
    /\ pc' = "base"
    /\ cmds' = <<Cmd("goto", 0, 0)>>
    /\ UNCHANGED <<failed, config, output, extracted, browser, rendered,
                   html_files, doc_i, idx, driver, locator, screenshot, start_idx>>

\* page.goto and wait_for_load_state("networkidle").
Goto ==
    /\ pc = "goto"
    /\ loaded' = doc_i
    /\ scroll_top' = 0
    /\ pc' = "base"
    /\ UNCHANGED <<failed, config, output, extracted, browser, viewport, rendered,
                   html_files, doc_i, idx, driver, locator, screenshot>>
    /\ cmds' = <<Cmd("goto", 0, 0)>>
    /\ UNCHANGED start_idx

\* page.evaluate: prepend the <base> element.
SetBase ==
    /\ pc = "base"
    /\ pc' = "style"
    /\ UNCHANGED <<failed, config, output, extracted, surface, rendered,
                   html_files, doc_i, idx, driver, locator, screenshot>>
    /\ cmds' = Append(cmds, Cmd("base", 0, 0))
    /\ UNCHANGED start_idx

\* Variant: the font-size style is not injected.
InjectStyleSkipped ==
    /\ pc = "style"
    /\ pc' = "measure"
    /\ UNCHANGED <<failed, config, output, extracted, surface, rendered,
                   html_files, doc_i, idx, driver, locator, screenshot,
                   start_idx, cmds>>

\* page.evaluate: append the font-size style.
InjectStyle ==
    /\ pc = "style"
    /\ pc' = "measure"
    /\ UNCHANGED <<failed, config, output, extracted, surface, rendered,
                   html_files, doc_i, idx, driver, locator, screenshot>>
    /\ cmds' = Append(cmds, Cmd("style", 0, 0))
    /\ UNCHANGED start_idx

\* scroller handle, total_height = scrollHeight, current_top = 0, idx = start_idx.
Measure ==
    /\ pc = "measure"
    /\ total_height' = html_files[loaded]
    /\ current_top' = 0
    /\ idx' = start_idx
    /\ pc' = "while"
    /\ UNCHANGED <<failed, config, output, extracted, surface, rendered,
                   html_files, doc_i, viewport_height, locator, screenshot>>
    /\ cmds' = Append(cmds, Cmd("measure", 0, 0))
    /\ UNCHANGED start_idx

\* while current_top < total_height: the test, and on entry the call of
\* find_clean_break up to its for statement; on exit return idx.
While ==
    /\ pc = "while"
    /\ \/ /\ LoopCond(current_top, total_height)
          /\ LET remaining_height == total_height - current_top
                 minh == MinHeight(base_height)
                 cur == StartHeight(remaining_height, base_height)
             IN /\ min_height' = minh
                /\ current_height' = cur
                /\ best_height' = cur
                /\ probed' = <<>>
                /\ IF ~RangeEmpty(cur, minh)
                   THEN /\ test_height' = cur
                        /\ pc' = "probe_vp"
                        /\ UNCHANGED viewport_height
                   ELSE /\ viewport_height' = cur
                        /\ pc' = "final_vp"
                        /\ UNCHANGED test_height
       \/ /\ ~LoopCond(current_top, total_height)
          /\ pc' = "for"
          /\ UNCHANGED <<viewport_height, locator>>
    /\ UNCHANGED <<failed, config, output, extracted, surface, rendered,
                   html_files, doc_i, idx, total_height, current_top, screenshot>>
    /\ UNCHANGED <<start_idx, cmds>>

\* ------------------------------------------------------- find_clean_break
\* page.set_viewport_size({"width": self.width, "height": test_height})
ProbeViewport ==
    /\ pc = "probe_vp"
    /\ viewport' = test_height
    /\ pc' = "probe_scroll"
    /\ UNCHANGED <<failed, config, output, extracted, browser, loaded, scroll_top,
                   rendered, html_files, doc_i, idx, driver, locator, screenshot>>
    /\ cmds' = Append(cmds, Cmd("viewport", test_height, 0))
    /\ UNCHANGED start_idx

\* scroller.evaluate("(el, top) => el.scrollTop = top", current_top)
ProbeScroll ==
    /\ pc = "probe_scroll"
    /\ scroll_top' = current_top
    /\ pc' = "probe_shot"
    /\ UNCHANGED <<failed, config, output, extracted, browser, loaded, viewport,
                   rendered, html_files, doc_i, idx, driver, locator, screenshot>>
    /\ cmds' = Append(cmds, Cmd("scroll", 0, current_top))
    /\ UNCHANGED start_idx

\* page.screenshot(): the surface shows the same row whenever it is asked
\* for the same document, offset and height; a row not shown before is any row.
Capture ==
    LET key == <<loaded, scroll_top, viewport>>
    IN IF key \in DOMAIN rendered
       THEN /\ screenshot' = rendered[key]
            /\ UNCHANGED rendered
       ELSE \E row \in Rows :
               /\ screenshot' = row
               /\ rendered' = [k \in DOMAIN rendered \cup {key} |->
                                 IF k = key THEN row ELSE rendered[k]]

\* The settle delay, the capture, the check of the bottom row, and the
\* loop step or the return.
ProbeShot ==
    /\ pc = "probe_shot"
    /\ Capture
    /\ probed' = Append(probed, test_height)
    /\ LET cut == is_text_cut_off(screenshot')
           best == BestAfterProbe(cut, test_height, best_height)
       IN /\ best_height' = best
          /\ IF LoopEnds(cut, test_height, min_height)
             THEN /\ viewport_height' = best
                  /\ pc' = "final_vp"
                  /\ UNCHANGED test_height
             ELSE /\ test_height' = NextTest(test_height)
                  /\ pc' = "probe_vp"
                  /\ UNCHANGED viewport_height
    /\ UNCHANGED <<failed, config, output, extracted, surface, html_files, doc_i,
                   idx, total_height, current_top, min_height, current_height>>
    /\ cmds' = Append(cmds, Cmd("shot", viewport, scroll_top))
    /\ UNCHANGED start_idx

\* ------------------------------------------------ process_html: one page
\* Variant: the page is captured at the base height.
FinalHeightBase == base_height

\* The height of the final viewport: the one find_clean_break returned.
FinalHeight == viewport_height

\* page.set_viewport_size({"width": self.width, "height": viewport_height})
FinalViewport ==
    /\ pc = "final_vp"
    /\ viewport' = FinalHeight
    /\ pc' = "final_scroll"
    /\ UNCHANGED <<failed, config, output, extracted, browser, loaded, scroll_top,
                   rendered, html_files, doc_i, idx, driver, locator, screenshot>>
    /\ cmds' = Append(cmds, Cmd("viewport", FinalHeight, 0))
    /\ UNCHANGED start_idx

FinalScroll ==
    /\ pc = "final_scroll"
    /\ scroll_top' = current_top
    /\ pc' = "final_shot"
    /\ UNCHANGED <<failed, config, output, extracted, browser, loaded, viewport,
                   rendered, html_files, doc_i, idx, driver, locator, screenshot>>
    /\ cmds' = Append(cmds, Cmd("scroll", 0, current_top))
    /\ UNCHANGED start_idx

FinalShot ==
    /\ pc = "final_shot"
    /\ Capture
    /\ pc' = "save"
    /\ UNCHANGED <<failed, config, output, extracted, surface, html_files, doc_i,
                   idx, driver, locator>>
    /\ cmds' = Append(cmds, Cmd("shot", viewport, scroll_top))
    /\ UNCHANGED start_idx

\* Binarize, save under the index, advance current_top and idx.
Save ==
    /\ pc = "save"
    /\ Len(written) < MaxPages
    /\ written' = Append(written,
                         [name |-> OutName(idx), idx |-> idx, doc |-> loaded,
                          top |-> current_top, height |-> viewport_height,
                          gray |-> screenshot, bw |-> Binarize(screenshot)])
    /\ outdir' = outdir \cup {OutName(idx)}
    /\ current_top' = current_top + viewport_height
    /\ idx' = idx + 1
    /\ pc' = "while"
    /\ UNCHANGED <<failed, config, outdir_exists, extracted, surface, rendered,
                   html_files, doc_i, total_height, viewport_height, locator,
                   screenshot>>
    /\ UNCHANGED <<start_idx, cmds>>

\* A surface operation or the file write raises.
Fallible == {"launch", "goto", "base", "style", "measure", "probe_vp",
             "probe_scroll", "probe_shot", "final_vp", "final_scroll",
             "final_shot", "save"}

Fail ==
    /\ pc \in Fallible
    /\ Raise(pc)
    /\ UNCHANGED extracted

Next ==
    \/ Main
    \/ Launch
    \/ Extract
    \/ ForNext
    \/ Goto
    \/ SetBase
    \/ InjectStyle
    \/ Measure
    \/ While
    \/ ProbeViewport
    \/ ProbeScroll
    \/ ProbeShot
    \/ FinalViewport
    \/ FinalScroll
    \/ FinalShot
    \/ Save
    \/ Close
    \/ Fail

Spec == Init /\ [][Next]_vars

\* ================================================================= claims
\* floor(0.3 * baseHeight), as the specification writes the floor.
Floor(bh) == (3 * bh) \div 10

\* A row with no pixel strictly darker than the threshold.
RowClean(row) == \A i \in DOMAIN row : row[i] >= Threshold

\* The pages written for document d, in the order written.
PagesOf(d) == SelectSeq(written, LAMBDA w : w.doc = d)

\* process_html has returned for document d.
Finished(d) == d < doc_i \/ (d = doc_i /\ pc \in {"for", "close", "done"})

\* The pages p tile [0, total): gapless, without overlap, in increasing order.
Tiles(p, total) ==
    /\ (p = <<>>) <=> (total = 0)
    /\ p # <<>> =>
         /\ p[1].top = 0
         /\ \A k \in 1..(Len(p) - 1) :
               /\ p[k + 1].top = p[k].top + p[k].height
               /\ p[k + 1].top > p[k].top
         /\ p[Len(p)].top + p[Len(p)].height = total
         /\ p[Len(p)].height > 0

\* C1: when process_html has finished a document, its pages tile
\* [0, totalHeight): the first starts at 0, each next one starts where the
\* previous one ended, the last ends exactly at totalHeight, and the pages
\* were written in strictly increasing currentTop order.
C1_Tiling ==
    \A d \in 1..Len(html_files) : Finished(d) => Tiles(PagesOf(d), html_files[d])

\* A finished document of three pages.
C1_Witness ==
    /\ pc = "done"
    /\ \E d \in 1..Len(html_files) : Len(PagesOf(d)) >= 3

\* C2: the page index starts at 0 and grows by one per written page, across
\* document boundaries: the k-th page written carries index k-1 and a name of
\* its own, the counter equals the number of pages written, and the pages
\* are in document order and top to bottom within a document.
C2_Index ==
    /\ idx = Len(written)
    /\ \A k \in 1..Len(written) :
          /\ written[k].idx = k - 1
          /\ \A j \in 1..(k - 1) : written[j].name # written[k].name
    /\ \A k \in 1..(Len(written) - 1) :
          \/ written[k].doc < written[k + 1].doc
          \/ /\ written[k].doc = written[k + 1].doc
             /\ written[k].top <= written[k + 1].top
    /\ Cardinality(outdir \ {PreExisting}) = Len(written)

\* A finished run whose pages come from two documents.
C2_Witness ==
    /\ pc = "done"
    /\ Len(written) >= 3
    /\ written[1].doc # written[Len(written)].doc
    /\ written[2].doc = written[Len(written)].doc

\* The range the specification gives an accepted height of a page at offset
\* top of a document of height total.
InRange(height, top, total) ==
    LET rem == total - top
        fl == Floor(base_height)
    IN IF rem < fl THEN height = rem
       ELSE fl <= height /\ height <= Min(base_height, rem)

\* C3: every height find_clean_break returns, and every height of a written
\* page, lies in [floor, min(baseHeight, remaining)], and equals the remaining
\* height when that is below the floor.
C3_HeightRange ==
    /\ pc = "final_vp" => InRange(viewport_height, current_top, total_height)
    /\ \A k \in 1..Len(written) :
          InRange(written[k].height, written[k].top, html_files[written[k].doc])

\* A run with a page below the floor and a page strictly inside the range.
C3_Witness ==
    /\ \E k \in 1..Len(written) :
          html_files[written[k].doc] - written[k].top < Floor(base_height)
    /\ \E k \in 1..Len(written) :
          /\ written[k].height > Floor(base_height)
          /\ written[k].height < Min(base_height,
                                     html_files[written[k].doc] - written[k].top)

\* The locator's call for the current page, in the specification's terms.
SpecStart == Min(total_height - current_top, base_height)
SpecFloor == Floor(base_height)
Candidates == SpecFloor..SpecStart
Returned == pc = "final_vp"
ProbedSet == {probed[i] : i \in DOMAIN probed}
Shown(d, top, h) == <<d, top, h>> \in DOMAIN rendered
CleanAt(d, top, h) == Shown(d, top, h) /\ RowClean(rendered[<<d, top, h>>])
CutAt(d, top, h) == Shown(d, top, h) /\ ~RowClean(rendered[<<d, top, h>>])
NoneClean(d, top, lo, hi) == \A h \in lo..hi : CutAt(d, top, h)

\* C4 as stated: with a non-empty candidate range and no clean candidate,
\* find_clean_break returns the floor.
C4_FloorReturned ==
    (Returned /\ Candidates # {} /\ NoneClean(doc_i, current_top, SpecFloor, SpecStart))
        => viewport_height = SpecFloor

\* C4 amended: with a non-empty candidate range and no clean candidate,
\* find_clean_break returns the start height, the first height it tested.
C4_StartReturned ==
    (Returned /\ Candidates # {} /\ NoneClean(doc_i, current_top, SpecFloor, SpecStart))
        => viewport_height = SpecStart

\* No candidate was clean, and the start height is above the floor.
C4_Witness ==
    /\ Returned
    /\ SpecStart > SpecFloor
    /\ NoneClean(doc_i, current_top, SpecFloor, SpecStart)

\* C5: the heights are tested downward by one from the start height; when a
\* candidate is clean the returned height is clean, every candidate above it
\* was tested and is not clean, and no candidate below it was tested; when
\* none is clean every candidate was tested.
C5_LargestClean ==
    Returned =>
        /\ \A i \in DOMAIN probed : probed[i] = SpecStart - (i - 1)
        /\ ProbedSet \subseteq Candidates
        /\ (\E h \in Candidates : CleanAt(doc_i, current_top, h)) =>
              /\ viewport_height \in Candidates
              /\ CleanAt(doc_i, current_top, viewport_height)
              /\ \A h \in (viewport_height + 1)..SpecStart : CutAt(doc_i, current_top, h)
              /\ \A h \in Candidates : h < viewport_height => h \notin ProbedSet
        /\ (~\E h \in Candidates : CleanAt(doc_i, current_top, h)) =>
              \A h \in Candidates : h \in ProbedSet /\ CutAt(doc_i, current_top, h)

\* A clean height strictly between the floor and the start height is returned.
C5_Witness ==
    /\ Returned
    /\ CleanAt(doc_i, current_top, viewport_height)
    /\ viewport_height < SpecStart
    /\ viewport_height > SpecFloor

\* The candidate range of a written page.
PageStart(w) == Min(html_files[w.doc] - w.top, base_height)
PageNoneClean(w) == NoneClean(w.doc, w.top, Floor(base_height), PageStart(w))
PageBelowFloor(w) == html_files[w.doc] - w.top < Floor(base_height)

\* C6 as stated: every written page has a clean final bottom row unless it
\* was forced by the floor: its height is the floor and no candidate was
\* clean, or the remaining height was below the floor.
C6_CleanUnlessFloor ==
    \A k \in 1..Len(written) :
        \/ RowClean(written[k].gray)
        \/ PageBelowFloor(written[k])
        \/ (written[k].height = Floor(base_height) /\ PageNoneClean(written[k]))

\* C6 amended: every written page has a clean final bottom row unless no
\* candidate was clean (the page then has the start height) or the remaining
\* height was below the floor.
C6_CleanUnlessForced ==
    \A k \in 1..Len(written) :
        \/ RowClean(written[k].gray)
        \/ PageBelowFloor(written[k])
        \/ (written[k].height = PageStart(written[k]) /\ PageNoneClean(written[k]))

\* A page accepted at a clean height below its start height, after a page
\* with no clean candidate.
C6_Witness ==
    /\ Len(written) >= 2
    /\ PageNoneClean(written[1])
    /\ ~RowClean(written[1].gray)
    /\ written[2].height < PageStart(written[2])
    /\ RowClean(written[2].gray)

\* C7 as stated: when extract_spine_htmls fails no browser has been launched.
C7_NoBrowserLaunched == failed = "extract" => browser = "none"

\* C7 amended: when extract_spine_htmls fails the browser has been launched,
\* but no document has been loaded, nothing has been captured and no page
\* has been written.
C7_NothingRendered ==
    failed = "extract" =>
        /\ browser # "none"
        /\ loaded = 0
        /\ rendered = <<>>
        /\ written = <<>>
        /\ outdir = {}

\* The archive has no container.xml and the run has aborted.
C7_Witness == pc = "aborted" /\ failed = "extract" /\ archive.kind = "nocontainer"

\* C8: a step in which an operation fails, and every step after a failure,
\* ends in the aborted state and writes no page, leaves the counter, the
\* offset, the loaded document and the loop over the documents as they were.
C8_Abort ==
    [][failed' # "none" =>
         /\ pc' = "aborted"
         /\ written' = written
         /\ outdir' = outdir
         /\ idx' = idx
         /\ current_top' = current_top
         /\ loaded' = loaded
         /\ doc_i' = doc_i]_vars

\* A capture or a write failed after a page was written, with the document
\* unfinished and a later document waiting.
C8_Witness ==
    /\ pc = "aborted"
    /\ failed \in {"probe_shot", "final_shot", "save"}
    /\ Len(written) >= 1
    /\ current_top < total_height
    /\ doc_i < Len(html_files)

\* C9: a run started on a non-empty output directory goes from main to the
\* rejection and nowhere else: nothing is extracted, no browser is launched,
\* no document is loaded, no page is written, the directory is as it was.
C9_Rejected ==
    PreExisting \in outdir =>
        /\ pc \in {"main", "rejected"}
        /\ ~extracted
        /\ browser = "none"
        /\ loaded = 0
        /\ rendered = <<>>
        /\ written = <<>>
        /\ outdir = {PreExisting}
        /\ failed = "none"

\* The run has been rejected.
C9_Witness == pc = "rejected" /\ PreExisting \in outdir /\ archive.kind = "ok"

\* C11 as stated (its safety half): every height find_clean_break returns
\* is at least 1, so that current_top strictly increases.
C11_Progress == Returned => viewport_height >= 1

Max0(n) == IF n < 0 THEN 0 ELSE n
InLocator == pc \in {"probe_vp", "probe_scroll", "probe_shot", "final_vp"}

\* C12: one call of find_clean_break captures at most
\* startHeight - minHeight + 1 times, never the same height twice, and at its
\* return the commands it issued are one viewport, scroll, capture triple
\* per height tested.
C12_CaptureBound ==
    /\ InLocator =>
          /\ Len(probed) <= Max0(SpecStart - SpecFloor + 1)
          /\ \A i, j \in DOMAIN probed : i # j => probed[i] # probed[j]
    /\ Returned =>
          /\ Len(cmds) >= 3 * Len(probed)
          /\ \A i \in DOMAIN probed :
                LET at == Len(cmds) - 3 * (Len(probed) - i)
                IN /\ cmds[at] = Cmd("shot", probed[i], current_top)
                   /\ cmds[at - 1].op = "scroll"
                   /\ cmds[at - 2].op = "viewport"

\* A call that tested every candidate of a range of three or more heights.
C12_Witness ==
    /\ Returned
    /\ SpecStart - SpecFloor >= 2
    /\ Len(probed) = SpecStart - SpecFloor + 1

\* Heights a viewport can take in a run.
Heights == 0..(MaxBase + 1)

\* C13: with the remaining height below the floor find_clean_break captures
\* nothing and returns the remaining height; the page written has that
\* height, is the last page of its document, and the only capture ever
\* taken at its offset is its final capture.
C13_BelowFloor ==
    /\ (Returned /\ total_height - current_top < SpecFloor) =>
          /\ probed = <<>>
          /\ viewport_height = total_height - current_top
          /\ \A h \in Heights : ~Shown(doc_i, current_top, h)
    /\ \A k \in 1..Len(written) :
          PageBelowFloor(written[k]) =>
             /\ written[k].height = html_files[written[k].doc] - written[k].top
             /\ \A j \in (k + 1)..Len(written) : written[j].doc # written[k].doc
             /\ \A h \in Heights :
                   Shown(written[k].doc, written[k].top, h) => h = written[k].height

\* A finished run whose first document ended with a page below the floor.
C13_Witness ==
    /\ pc = "done"
    /\ Len(html_files) = 2
    /\ \E k \in 1..Len(written) : written[k].doc = 1 /\ PageBelowFloor(written[k])
    /\ \E k \in 1..Len(written) : written[k].doc = 2

\* The commands of the paging loop.
PagingOps == {"viewport", "scroll", "shot"}

LoadCmds == <<Cmd("goto", 0, 0), Cmd("base", 0, 0), Cmd("style", 0, 0),
              Cmd("measure", 0, 0)>>

\* C14: a document of total height 0 never gets a page and never a resize,
\* scroll or capture; when process_html returns for it the index is the one
\* it was called with; the first page of the next document comes
\* right after the last page written before the empty document.
C14_EmptyDocument ==
    /\ \A k \in 1..Len(written) : html_files[written[k].doc] > 0
    /\ (loaded >= 1 /\ html_files[loaded] = 0) =>
          \A i \in DOMAIN cmds : cmds[i].op \notin PagingOps
    /\ (pc = "for" /\ doc_i >= 1 /\ html_files[doc_i] = 0) =>
          /\ cmds = LoadCmds
          /\ idx = start_idx
    /\ \A k \in 1..Len(written) :
          LET d == written[k].doc
          IN (d >= 2 /\ html_files[d - 1] = 0 /\ (k = 1 \/ written[k - 1].doc # d)) =>
                /\ written[k].idx = k - 1
                /\ written[k].top = 0
                /\ k > 1 => written[k - 1].doc < d - 1

\* A finished run whose first document is empty and whose second has pages.
C14_Witness ==
    /\ pc = "done"
    /\ Len(html_files) = 2
    /\ html_files[1] = 0
    /\ Len(written) >= 2
    /\ written[1].doc = 2

\* C15: every capture is preceded, with no other command in between, by a
\* set-viewport to the captured height and then a set-scroll to the page's
\* offset; a probe is taken at the height under test and the final capture
\* at the height find_clean_break returned.
C15_CommandOrder ==
    /\ \A i \in DOMAIN cmds :
          cmds[i].op = "shot" =>
             /\ i >= 3
             /\ cmds[i - 2] = Cmd("viewport", cmds[i].h, 0)
             /\ cmds[i - 1] = Cmd("scroll", 0, cmds[i].top)
    /\ pc = "probe_shot" =>
          /\ viewport = test_height
          /\ scroll_top = current_top
          /\ cmds[Len(cmds)] = Cmd("scroll", 0, current_top)
    /\ pc = "final_shot" =>
          /\ viewport = best_height
          /\ scroll_top = current_top
          /\ cmds[Len(cmds)] = Cmd("scroll", 0, current_top)
    /\ pc = "save" =>
          /\ cmds[Len(cmds)] = Cmd("shot", best_height, current_top)
          /\ viewport_height = best_height

\* A final capture at a height below the start height, at an offset above 0.
C15_Witness ==
    /\ pc = "save"
    /\ current_top > 0
    /\ best_height < current_height
    /\ Len(probed) >= 2

Paging == pc \in {"while", "probe_vp", "probe_scroll", "probe_shot", "final_vp",
                  "final_scroll", "final_shot", "save"}

\* C16: the commands of a document are load, base path, text size, measure,
\* in that order and once each, and only then resizes, scrolls and captures;
\* nothing of the document is captured before the measurement; the paging
\* loop starts at offset 0 and keeps the measured height.
C16_LoadOrder ==
    /\ \A i \in DOMAIN cmds :
          IF i <= Len(LoadCmds) THEN cmds[i] = LoadCmds[i]
          ELSE cmds[i].op \in PagingOps
    /\ (\E key \in DOMAIN rendered : key[1] = loaded) => Len(cmds) > Len(LoadCmds)
    /\ Paging =>
          /\ Len(cmds) >= Len(LoadCmds)
          /\ loaded = doc_i
          /\ total_height = html_files[doc_i]
    /\ (pc = "while" /\ cmds = LoadCmds) => current_top = 0
    /\ pc = "measure" => Len(cmds) = Len(LoadCmds) - 1

\* The second document is being paginated, past its first page.
C16_Witness ==
    /\ pc = "save"
    /\ doc_i = 2
    /\ current_top > 0

\* C17 as stated: a bottom row is_text_cut_off finds clean is all white in
\* the written 1-bit image.
C17_CleanIsWhite ==
    \A k \in 1..Len(written) :
        ~is_text_cut_off(written[k].gray) =>
            \A i \in DOMAIN written[k].bw : written[k].bw[i] = White

\* C18: at every resize, scroll and capture of the paging loop the viewport
\* lies inside the document: current_top >= 0 and
\* current_top + viewport height <= total_height.
C18_InsideDocument ==
    /\ pc \in {"probe_scroll", "probe_shot", "final_scroll", "final_shot", "save"} =>
          /\ current_top >= 0
          /\ viewport >= 0
          /\ current_top + viewport <= total_height
    /\ pc \in {"probe_shot", "final_shot", "save"} => scroll_top = current_top
    /\ (loaded >= 1 /\ loaded <= Len(html_files)) =>
          \A i \in DOMAIN cmds :
             cmds[i].op = "shot" =>
                cmds[i].top >= 0 /\ cmds[i].top + cmds[i].h <= html_files[loaded]

\* A probe whose viewport ends exactly at the end of the document, at an
\* offset above 0.
C18_Witness ==
    /\ pc = "probe_shot"
    /\ current_top > 0
    /\ current_top + viewport = total_height

\* C19 as stated: when a document's height is measured the viewport height
\* is the base height.
C19_BaseViewport == pc = "measure" => viewport = base_height

\* C19 amended: when a document's height is measured the viewport height is
\* the base height if no page has been written yet, and the height of the
\* page written last otherwise.
C19_LastViewport ==
    pc = "measure" =>
        viewport = IF written = <<>> THEN base_height
                   ELSE written[Len(written)].height

\* The second document is measured with the viewport of the first's last page.
C19_Witness ==
    /\ pc = "measure"
    /\ doc_i = 2
    /\ written # <<>>
    /\ viewport # base_height

====
